---- MODULE Spec2Model ----
\* Model of flupsession's SessionMiddleware (src/flupsession/_session.py):
\* the Session entity, the payload transform chain, the Fernet envelope as the
\* middleware uses it, and the per-request lifecycle of __call__.
EXTENDS Integers, Sequences, FiniteSets, TLC

VARIABLES
    args,            \* the arguments SessionMiddleware was constructed with
    cfg,             \* the SessionMiddleware instance's attributes (set by __init__)
    now,             \* int(time.time()), the clock Fernet reads
    jar,             \* the client's stored cookie value: that of the latest Set-Cookie it received
    pc,              \* per request slot: "idle", "app" (application running), "responded",
                     \*   "error" (my_start_response raised)
    environ,         \* per request slot: the WSGI environ
    session_holder,  \* per request slot: the closure cell of __call__ (list of 0 or 1 sessions)
    heap,            \* per request slot: the Session objects created so far, by identity
    headers,         \* per request slot: the header list handed to start_response
    got,             \* per request slot: the identities the accessor returned, call by call
    loads,           \* per request slot: the times at which _load_session ran
    mutated,         \* per request slot: whether a mutating operation has completed:
                     \*   "no" (none was called), "failed" (each one called raised
                     \*   KeyError), "before" start_response, or only "after" it
    atResp,          \* per request slot: the session as _add_cookie examined it
    sealed           \* the session contents sealed into the cookie value the client stores

vars == <<args, cfg, now, jar, pc, environ, session_holder, heap, headers, got, loads,
          mutated, atResp, sealed>>

\* ---------------------------------------------------------------- bounds
MaxTime == 2
MaxVal == 2
MaxConc == 2
MaxCalls == 2

Slots == 1..MaxConc
Keys == {"count"}
Vals == 1..MaxVal

\* ---------------------------------------------------------------- Python values
\* An optional value: None is the empty tuple, any other value x is <<x>>.
None == <<>>
Some(x) == <<x>>
IsNone(o) == o = <<>>
The(o) == o[1]

\* Session contents: the dicts over Keys with values in Vals.
Dicts == UNION {[D -> Vals] : D \in SUBSET Keys}
EmptyDict == <<>>

DictSet(d, k, v) == [x \in DOMAIN d \cup {k} |-> IF x = k THEN v ELSE d[x]]
DictDel(d, k) == [x \in DOMAIN d \ {k} |-> d[x]]
DictUpdate(d, other) ==
    [x \in DOMAIN d \cup DOMAIN other |-> IF x \in DOMAIN other THEN other[x] ELSE d[x]]

\* ---------------------------------------------------------------- Session
Session(values) == [data |-> values, dirty |-> FALSE, valid |-> TRUE, path |-> None]

save(s) == [s EXCEPT !.dirty = TRUE]

\* Every operation returns the session afterwards and the exception it raised.
Ret(s, e) == [sess |-> s, exc |-> e]

clear(s) == Ret(save([s EXCEPT !.data = EmptyDict]), "none")

\* invalidate that flips the validity flag
invalidate_flip(s) == Ret([clear(s).sess EXCEPT !.valid = ~s.valid], "none")

invalidate(s) == Ret([clear(s).sess EXCEPT !.valid = FALSE], "none")

\* __setitem__ without the call to save()
setitem_nosave(s, k, v) == Ret([s EXCEPT !.data = DictSet(s.data, k, v)], "none")

\* __setitem__ that makes an invalidated session valid again
setitem_revive(s, k, v) ==
    Ret([save([s EXCEPT !.data = DictSet(s.data, k, v)]) EXCEPT !.valid = TRUE], "none")

setitem(s, k, v) == Ret(save([s EXCEPT !.data = DictSet(s.data, k, v)]), "none")

\* __delitem__ that saves before it deletes
delitem_savefirst(s, k) ==
    IF k \in DOMAIN s.data
    THEN Ret(save([s EXCEPT !.data = DictDel(s.data, k)]), "none")
    ELSE Ret(save(s), "KeyError")

delitem(s, k) ==
    IF k \in DOMAIN s.data
    THEN Ret(save([s EXCEPT !.data = DictDel(s.data, k)]), "none")
    ELSE Ret(s, "KeyError")

\* pop(key, *args): d is the optional default.
pop(s, k, d) ==
    IF k \in DOMAIN s.data
    THEN Ret(save([s EXCEPT !.data = DictDel(s.data, k)]), "none")
    ELSE IF IsNone(d) THEN Ret(s, "KeyError") ELSE Ret(save(s), "none")

\* popitem(): k is the item the dict chooses to remove.
popitem(s, k) ==
    IF DOMAIN s.data = {}
    THEN Ret(s, "KeyError")
    ELSE Ret(save([s EXCEPT !.data = DictDel(s.data, k)]), "none")

\* setdefault that saves only when it stores the default
setdefault_lazy(s, k, v) ==
    IF k \in DOMAIN s.data
    THEN Ret(s, "none")
    ELSE Ret(save([s EXCEPT !.data = DictSet(s.data, k, v)]), "none")

setdefault(s, k, v) ==
    IF k \in DOMAIN s.data
    THEN Ret(save(s), "none")
    ELSE Ret(save([s EXCEPT !.data = DictSet(s.data, k, v)]), "none")

\* update(other): merges, saves, then returns the unbound name `result`.
update(s, other) ==
    Ret(save([s EXCEPT !.data = DictUpdate(s.data, other)]), "NameError")

\* get(key) and `key in session` are dict's own: Session does not override them.
get(s, k) == Ret(s, "none")

contains(s, k) == Ret(s, "none")

\* ---------------------------------------------------------------- payload transform chain
\* A byte string is modelled by what produced it: the serializer's format, the
\* item list it wrote, and whether zlib wrapped it.
\* sorted(): the keys of S in ascending order (KeyOrder lists Keys ascending).
KeyOrder == <<"count">>
SortedKeys(S) == SelectSeq(KeyOrder, LAMBDA k : k \in S)

\* json.dumps(session, separators=(',', ':'), sort_keys=True)
JSONencode(d) ==
    LET ks == SortedKeys(DOMAIN d)
    IN [fmt |-> "json", z |-> FALSE, items |-> [i \in 1..Len(ks) |-> <<ks[i], d[ks[i]]>>]]

ItemsToDict(items) ==
    [k \in {items[i][1] : i \in 1..Len(items)} |->
        LET i == CHOOSE j \in 1..Len(items) : items[j][1] = k IN items[i][2]]

Ok(v) == [ok |-> TRUE, val |-> v, err |-> "none"]
Err(e) == [ok |-> FALSE, val |-> EmptyDict, err |-> e]

\* json.loads: any failure is wrapped into SessionSerializerException
JSONdecode(b) ==
    IF b.fmt = "json" /\ ~b.z THEN Ok(ItemsToDict(b.items))
    ELSE Err("SessionSerializerException")

\* pickle.dumps(dict(session)): the items in the dict's own order
PickleEncode(d) ==
    LET ks == SortedKeys(DOMAIN d)
    IN [fmt |-> "pickle", z |-> FALSE,
        items |-> [i \in 1..Len(ks) |-> <<ks[Len(ks) + 1 - i], d[ks[Len(ks) + 1 - i]]>>]]

\* pickle.loads: a PickleError (UnpicklingError on bytes that are no pickle) is
\* wrapped into SessionSerializerException; a pickle of a protocol this
\* interpreter does not know raises ValueError, which is not wrapped.
PickleDecode(b) ==
    IF b.fmt = "pickle" /\ ~b.z THEN Ok(ItemsToDict(b.items))
    ELSE IF b.fmt = "pickle-new" /\ ~b.z THEN Err("ValueError")
    ELSE Err("SessionSerializerException")

SerializerEncode(ser, d) == IF ser = "json" THEN JSONencode(d) ELSE PickleEncode(d)
SerializerDecode(ser, b) == IF ser = "json" THEN JSONdecode(b) ELSE PickleDecode(b)

\* The levels zlib.compress accepts: Z_DEFAULT_COMPRESSION (-1) and 0 to 9.
ValidLevel(level) == level \in -1..9

\* self._compressor[0]: zlib.compress(data, level), which raises zlib.error on
\* a level it does not accept, or noop when compression is None
Compress(compression, b) ==
    IF IsNone(compression) THEN Ok(b)
    ELSE IF ValidLevel(The(compression)) THEN Ok([b EXCEPT !.z = TRUE])
    ELSE Err("zlib.error")

\* self._compressor[1]: zlib.decompress raises zlib.error on anything zlib did not write
Decompress(compression, b) ==
    IF IsNone(compression) THEN Ok(b)
    ELSE IF b.z THEN Ok([b EXCEPT !.z = FALSE]) ELSE Err("zlib.error")

\* ---------------------------------------------------------------- Fernet
MAX_CLOCK_SKEW == 60

\* Fernet.encrypt at time t: timestamp, ciphertext and an HMAC under the key.
FernetEncrypt(key, data, t) == [key |-> key, ts |-> t, data |-> data, intact |-> TRUE]

\* Fernet.decrypt(token, ttl) at time t.
FernetDecrypt(key, token, ttl, t) ==
    IF ~IsNone(ttl) /\ token.ts + The(ttl) < t THEN Err("InvalidToken")
    ELSE IF ~IsNone(ttl) /\ t + MAX_CLOCK_SKEW < token.ts THEN Err("InvalidToken")
    ELSE IF ~token.intact \/ token.key # key THEN Err("InvalidToken")
    ELSE Ok(token.data)

\* ---------------------------------------------------------------- SessionMiddleware
Serializers == {"json", "pickle"}

\* session_ttl is not None and session_ttl or cookie_expires
SessionTTL(session_ttl, cookie_expires) ==
    IF ~IsNone(session_ttl) /\ The(session_ttl) # 0 THEN session_ttl ELSE cookie_expires

\* SessionMiddleware.__init__; error is the exception construction raises.
init(secret_key, cookie_domain, cookie_path, cookie_expires, httponly, secure, session_ttl, serializer, compression) ==
    [secret_key |-> secret_key,
     cookie_key |-> "flup.session.id",
     cookie_domain |-> cookie_domain,
     cookie_path |-> cookie_path,
     cookie_expires |-> cookie_expires,
     httponly |-> httponly,
     secure |-> secure,
     session_ttl |-> SessionTTL(session_ttl, cookie_expires),
     serializer |-> serializer,
     compression |-> compression,
     error |-> IF serializer \in Serializers THEN "none" ELSE "ValueError"]

\* self._compressor[0](self._serializer.encode(session))
Encode(c, d) == Compress(c.compression, SerializerEncode(c.serializer, d))

\* decode that forgets to decompress
Decode_nodecompress(c, b) == SerializerDecode(c.serializer, b)

\* self._serializer.decode(self._compressor[1](session_data))
Decode(c, b) ==
    LET dz == Decompress(c.compression, b)
    IN IF dz.ok THEN SerializerDecode(c.serializer, dz.val) ELSE dz

\* The Cookie header of a request: absent, malformed (CookieError), carrying
\* only other cookies, or carrying the session cookie with its value and $Path.
NoCookie(kind) == [kind |-> kind, token |-> None, path |-> ""]
SessionCookie(token, path) == [kind |-> "session", token |-> Some(token), path |-> path]

\* SimpleCookie(environ.get('HTTP_COOKIE')).get(self._cookie_key)
Morsel(hdr) ==
    IF hdr.kind = "session" THEN Some([value |-> The(hdr.token), path |-> hdr.path])
    ELSE None

\* except (InvalidToken, SessionSerializerException, zlib.error)
Caught == {"InvalidToken", "SessionSerializerException", "zlib.error"}

\* The except branch of _load_session: start anew, overwrite the invalid cookie.
StartAnew == save(Session(EmptyDict))

\* _load_session calling decrypt without ttl=
_load_session_nottl(c, env, t) ==
    LET morsel == Morsel(env.HTTP_COOKIE)
    IN IF ~IsNone(morsel)
       THEN LET dec == FernetDecrypt(c.secret_key, The(morsel).value, None, t)
                dd == IF dec.ok THEN Decode(c, dec.val) ELSE dec
                session == IF dd.ok THEN Session(dd.val) ELSE save(Session(EmptyDict))
            IN IF dd.ok \/ dd.err \in Caught
               THEN Ret([session EXCEPT !.path = Some(The(morsel).path)], "none")
               ELSE Ret(session, dd.err)
       ELSE Ret([Session(EmptyDict) EXCEPT !.path = c.cookie_path], "none")

\* _load_session returns the session, or raises what its except clause does
\* not name (the result then carries the exception and no session is returned).
_load_session(c, env, t) ==
    LET morsel == Morsel(env.HTTP_COOKIE)
    IN IF ~IsNone(morsel)
       THEN LET dec == FernetDecrypt(c.secret_key, The(morsel).value, c.session_ttl, t)
                dd == IF dec.ok THEN Decode(c, dec.val) ELSE dec
                session == IF dd.ok THEN Session(dd.val) ELSE StartAnew
            IN IF dd.ok \/ dd.err \in Caught
               THEN Ret([session EXCEPT !.path = Some(The(morsel).path)], "none")
               ELSE Ret(session, dd.err)
       ELSE Ret([Session(EmptyDict) EXCEPT !.path = c.cookie_path], "none")

\* session_factory of __call__: holder is the cell, hp the objects created so
\* far; ret is the identity returned, 0 when the load raised (the cell is then
\* left empty and the exception reaches the application).
session_factory(c, holder, hp, env, t) ==
    LET ld == _load_session(c, env, t)
    IN IF Len(holder) = 0
       THEN IF ld.exc = "none"
            THEN [holder |-> <<Len(hp) + 1>>, heap |-> Append(hp, ld.sess),
                  ret |-> Len(hp) + 1, loaded |-> TRUE]
            ELSE [holder |-> holder, heap |-> hp, ret |-> 0, loaded |-> TRUE]
       ELSE [holder |-> holder, heap |-> hp, ret |-> holder[1], loaded |-> FALSE]

\* The path _add_cookie gives the cookie.
CookiePath(session, env) ==
    LET p1 == IF IsNone(session.path) THEN env.SCRIPT_NAME ELSE The(session.path)
    IN IF p1 = "" THEN "/" ELSE p1

YearAgo == -31536000

\* the morsel with the configured expiry applied after the invalidation override
Morsel_out_swapped(c, env, session, t) ==
    [name |-> c.cookie_key,
     value |-> FernetEncrypt(c.secret_key, Encode(c, session.data).val, t),
     domain |-> IF ~IsNone(c.cookie_domain) /\ The(c.cookie_domain) # ""
                THEN c.cookie_domain ELSE None,
     path |-> CookiePath(session, env),
     httponly |-> c.httponly,
     secure |-> \/ (IsNone(c.secure) /\ env.url_scheme = "https")
                \/ (~IsNone(c.secure) /\ The(c.secure)),
     expires |-> IF ~IsNone(c.cookie_expires) THEN Some(t + The(c.cookie_expires))
                 ELSE IF ~session.valid THEN Some(t + YearAgo)
                 ELSE None,
     maxage |-> IF ~session.valid THEN Some(0) ELSE None]

\* The morsel _add_cookie renders with OutputString(); expires is absolute.
Morsel_out(c, env, session, t) ==
    [name |-> c.cookie_key,
     value |-> FernetEncrypt(c.secret_key, Encode(c, session.data).val, t),
     domain |-> IF ~IsNone(c.cookie_domain) /\ The(c.cookie_domain) # ""
                THEN c.cookie_domain ELSE None,
     path |-> CookiePath(session, env),
     httponly |-> c.httponly,
     secure |-> \/ (IsNone(c.secure) /\ env.url_scheme = "https")
                \/ (~IsNone(c.secure) /\ The(c.secure)),
     expires |-> IF ~session.valid THEN Some(t + YearAgo)
                 ELSE IF ~IsNone(c.cookie_expires) THEN Some(t + The(c.cookie_expires))
                 ELSE None,
     maxage |-> IF ~session.valid THEN Some(0) ELSE None]

\* _add_cookie without the dirty test
_add_cookie_always(c, env, holder, hp, hs, t) ==
    IF Len(holder) = 0 THEN Ok(hs)
    ELSE IF ~Encode(c, hp[holder[1]].data).ok THEN Err(Encode(c, hp[holder[1]].data).err)
    ELSE Ok(Append(hs, <<"Set-Cookie", Morsel_out(c, env, hp[holder[1]], t)>>))

\* _add_cookie: hs is the header list, holder/hp the cell and its objects; the
\* result is the header list afterwards, or the exception the encoding raised.
_add_cookie(c, env, holder, hp, hs, t) ==
    IF Len(holder) = 0 THEN Ok(hs)
    ELSE IF ~hp[holder[1]].dirty THEN Ok(hs)
    ELSE IF ~Encode(c, hp[holder[1]].data).ok THEN Err(Encode(c, hp[holder[1]].data).err)
    ELSE Ok(Append(hs, <<"Set-Cookie", Morsel_out(c, env, hp[holder[1]], t)>>))

\* ---------------------------------------------------------------- the state machine
\* Constructor arguments the model explores.
SECRET == "key"
DefaultArgs ==
    [cookie_path |-> None, cookie_expires |-> None, session_ttl |-> None,
     serializer |-> "json", compression |-> Some(-1)]
AllArgs ==
    [cookie_path : {None, Some("/app")},
     cookie_expires : {None, Some(2)},
     session_ttl : {None, Some(0), Some(1)},
     serializer : Serializers,
     compression : {None, Some(-1)}]

\* The default construction varied in its expiry settings, in its transform
\* chain, or in its cookie path.
Differs(a, fields) == \A f \in DOMAIN a : a[f] # DefaultArgs[f] => f \in fields
ArgSets ==
    {a \in AllArgs : \/ Differs(a, {"cookie_expires", "session_ttl"})
                     \/ Differs(a, {"serializer", "compression"})
                     \/ Differs(a, {"cookie_path", "cookie_expires"})}

Construct(a) ==
    init(SECRET, None, a.cookie_path, a.cookie_expires, TRUE, None,
         a.session_ttl, a.serializer, a.compression)

Idle(f) == [r \in Slots |-> f]

\* Constructions the constructor does not validate alike: a serializer name
\* and a compression level outside what the module and zlib support.
ConfigArgs ==
    {DefaultArgs,
     [DefaultArgs EXCEPT !.serializer = "yaml"],
     [DefaultArgs EXCEPT !.compression = Some(10)]}

\* The state after constructing the middleware from one of the arguments A.
Start(A) ==
    /\ args \in A
    /\ cfg = Construct(args)
    /\ now = 0
    /\ jar = None
    /\ pc = Idle("idle")
    /\ environ = Idle(None)
    /\ session_holder = Idle(<<>>)
    /\ heap = Idle(<<>>)
    /\ headers = Idle(<<>>)
    /\ got = Idle(<<>>)
    /\ loads = Idle(<<>>)
    /\ mutated = Idle("no")
    /\ atResp = Idle(None)
    /\ sealed = None

Init == Start(ArgSets)

InitConfig == Start(ConfigArgs)

\* A token whose bytes were altered in transit: its HMAC no longer verifies.
Tampered(token) == [token EXCEPT !.intact = FALSE]

\* Tokens sealed under the same key by an instance configured with another
\* serializer or compression, or pickling at a newer HIGHEST_PROTOCOL (the key
\* is persisted across deployments).
Foreign(token) ==
    LET d == ItemsToDict(token.data.items)
        ser == IF token.data.fmt = "json" THEN "pickle" ELSE "json"
    IN {[token EXCEPT !.data = Compress(IF token.data.z THEN Some(-1) ELSE None,
                                        SerializerEncode(ser, d)).val],
        [token EXCEPT !.data.z = ~token.data.z],
        [token EXCEPT !.data.fmt = "pickle-new"]}

\* The Cookie headers a client may send.
CookieHeaders ==
    {NoCookie("absent"), NoCookie("malformed"), NoCookie("other")}
    \cup (IF IsNone(jar) THEN {}
          ELSE LET tok == The(jar)
               IN {SessionCookie(tok, p) : p \in {"", "/old"}}
                  \cup {SessionCookie(t, "") : t \in {Tampered(tok)} \cup Foreign(tok)})

\* Where requests arrive: (SCRIPT_NAME, wsgi.url_scheme).
Locations == {<<"", "http">>, <<"/s", "https">>}

\* __call__ storing the session itself, not the factory, in environ
Call_eager(r) ==
    /\ cfg.error = "none"
    /\ pc[r] = "idle"
    /\ \A q \in DOMAIN pc : q < r => pc[q] # "idle"
    /\ \E hdr \in CookieHeaders, loc \in Locations :
          LET env == [HTTP_COOKIE |-> hdr, SCRIPT_NAME |-> loc[1], url_scheme |-> loc[2]]
          IN /\ environ' = [environ EXCEPT ![r] = Some(env)]
             /\ heap' = [heap EXCEPT ![r] = <<_load_session(cfg, env, now).sess>>]
    /\ pc' = [pc EXCEPT ![r] = "app"]
    /\ session_holder' = [session_holder EXCEPT ![r] = <<1>>]
    /\ headers' = [headers EXCEPT ![r] = <<>>]
    /\ got' = [got EXCEPT ![r] = <<>>]
    /\ loads' = [loads EXCEPT ![r] = <<now>>]
    /\ mutated' = [mutated EXCEPT ![r] = "no"]
    /\ atResp' = [atResp EXCEPT ![r] = None]
    /\ UNCHANGED <<args, cfg, now, jar, sealed>>

\* __call__: a request arrives in slot r; the cell is empty and the application starts.
Call(r) ==
    /\ cfg.error = "none"
    /\ pc[r] = "idle"
    /\ \A q \in DOMAIN pc : q < r => pc[q] # "idle"
    /\ \E hdr \in CookieHeaders, loc \in Locations :
          environ' = [environ EXCEPT ![r] =
              Some([HTTP_COOKIE |-> hdr, SCRIPT_NAME |-> loc[1], url_scheme |-> loc[2]])]
    /\ pc' = [pc EXCEPT ![r] = "app"]
    /\ session_holder' = [session_holder EXCEPT ![r] = <<>>]
    /\ heap' = [heap EXCEPT ![r] = <<>>]
    /\ headers' = [headers EXCEPT ![r] = <<>>]
    /\ got' = [got EXCEPT ![r] = <<>>]
    /\ loads' = [loads EXCEPT ![r] = <<>>]
    /\ mutated' = [mutated EXCEPT ![r] = "no"]
    /\ atResp' = [atResp EXCEPT ![r] = None]
    /\ UNCHANGED <<args, cfg, now, jar, sealed>>

\* The application calls environ['flup.session'](), before or after responding.
GetSession(r) ==
    /\ pc[r] \in {"app", "responded"}
    /\ Len(got[r]) < MaxCalls
    /\ LET f == session_factory(cfg, session_holder[r], heap[r], The(environ[r]), now)
       IN /\ session_holder' = [session_holder EXCEPT ![r] = f.holder]
          /\ heap' = [heap EXCEPT ![r] = f.heap]
          /\ got' = [got EXCEPT ![r] = Append(@, f.ret)]
          /\ loads' = [loads EXCEPT ![r] = IF f.loaded THEN Append(@, now) ELSE @]
    /\ UNCHANGED <<args, cfg, now, jar, pc, environ, headers, mutated, atResp, sealed>>

\* The objects the application holds a reference to.
Refs(r) == {got[r][i] : i \in 1..Len(got[r])} \ {0}

\* The operation lands on a session object that all requests share.
Apply_shared(r, o, res) ==
    /\ heap' = [q \in DOMAIN heap |->
                  IF o \in DOMAIN heap[q] THEN [heap[q] EXCEPT ![o] = res.sess] ELSE heap[q]]
    /\ mutated' = [mutated EXCEPT ![r] =
          IF @ = "before" THEN @
          ELSE IF res.exc = "KeyError" THEN (IF @ = "no" THEN "failed" ELSE @)
          ELSE IF pc[r] = "app" THEN "before" ELSE "after"]
    /\ UNCHANGED <<args, cfg, now, jar, pc, environ, session_holder, headers, got, loads,
                   atResp, sealed>>

\* The application performs an operation on object o, with result res; an
\* exception it raises is the application's to handle.
Apply(r, o, res) ==
    /\ heap' = [heap EXCEPT ![r][o] = res.sess]
    /\ mutated' = [mutated EXCEPT ![r] =
          IF @ = "before" THEN @
          ELSE IF res.exc = "KeyError" THEN (IF @ = "no" THEN "failed" ELSE @)
          ELSE IF pc[r] = "app" THEN "before" ELSE "after"]
    /\ UNCHANGED <<args, cfg, now, jar, pc, environ, session_holder, headers, got, loads,
                   atResp, sealed>>

Running(r) == pc[r] \in {"app", "responded"}

SetItem(r) ==
    /\ Running(r)
    /\ \E o \in Refs(r), k \in Keys, v \in Vals : Apply(r, o, setitem(heap[r][o], k, v))

DelItem(r) ==
    /\ Running(r)
    /\ \E o \in Refs(r), k \in Keys : Apply(r, o, delitem(heap[r][o], k))

Clear(r) ==
    /\ Running(r)
    /\ \E o \in Refs(r) : Apply(r, o, clear(heap[r][o]))

Pop(r) ==
    /\ Running(r)
    /\ \E o \in Refs(r), k \in Keys, d \in {None, Some(1)} : Apply(r, o, pop(heap[r][o], k, d))

PopItem(r) ==
    /\ Running(r)
    /\ \E o \in Refs(r) :
          \/ /\ DOMAIN heap[r][o].data = {}
             /\ Apply(r, o, popitem(heap[r][o], "count"))
          \/ \E k \in DOMAIN heap[r][o].data : Apply(r, o, popitem(heap[r][o], k))

SetDefault(r) ==
    /\ Running(r)
    /\ \E o \in Refs(r), k \in Keys, v \in Vals : Apply(r, o, setdefault(heap[r][o], k, v))

Update(r) ==
    /\ Running(r)
    /\ \E o \in Refs(r), other \in Dicts : Apply(r, o, update(heap[r][o], other))

Invalidate(r) ==
    /\ Running(r)
    /\ \E o \in Refs(r) : Apply(r, o, invalidate(heap[r][o]))

\* my_start_response: add the cookie, then hand the headers to the server,
\* which sends them to the client; the client stores a Set-Cookie it receives.
\* When _add_cookie raises, start_response is never reached and the request
\* ends in the error.
SetCookies(hs) == SelectSeq(hs, LAMBDA h : h[1] = "Set-Cookie")

my_start_response(r) ==
    /\ pc[r] = "app"
    /\ LET res == _add_cookie(cfg, The(environ[r]), session_holder[r], heap[r],
                              <<<<"Content-Type", "text/plain">>>>, now)
           hs == IF res.ok THEN res.val ELSE <<>>
           sc == SetCookies(hs)
       IN /\ headers' = [headers EXCEPT ![r] = hs]
          /\ jar' = IF Len(sc) = 0 THEN jar ELSE Some(sc[Len(sc)][2].value)
          /\ sealed' = IF Len(sc) = 0 THEN sealed
                       ELSE Some(heap[r][session_holder[r][1]].data)
          /\ pc' = [pc EXCEPT ![r] = IF res.ok THEN "responded" ELSE "error"]
    /\ atResp' = [atResp EXCEPT ![r] =
          IF Len(session_holder[r]) = 0 THEN None
          ELSE Some(heap[r][session_holder[r][1]])]
    /\ UNCHANGED <<args, cfg, now, environ, session_holder, heap, got, loads, mutated>>

\* The request ends (response complete, aborted before responding, or
\* failed); its session is discarded.
Finish(r) ==
    /\ pc[r] # "idle"
    /\ pc' = [pc EXCEPT ![r] = "idle"]
    /\ environ' = [environ EXCEPT ![r] = None]
    /\ session_holder' = [session_holder EXCEPT ![r] = <<>>]
    /\ heap' = [heap EXCEPT ![r] = <<>>]
    /\ headers' = [headers EXCEPT ![r] = <<>>]
    /\ got' = [got EXCEPT ![r] = <<>>]
    /\ loads' = [loads EXCEPT ![r] = <<>>]
    /\ mutated' = [mutated EXCEPT ![r] = "no"]
    /\ atResp' = [atResp EXCEPT ![r] = None]
    /\ UNCHANGED <<args, cfg, now, jar, sealed>>

\* A second passes between requests.
Tick ==
    /\ now < MaxTime
    /\ \A r \in DOMAIN pc : pc[r] = "idle"
    /\ now' = now + 1
    /\ UNCHANGED <<args, cfg, jar, pc, environ, session_holder, heap, headers, got, loads,
                   mutated, atResp, sealed>>

\* One client, one request at a time.
Serve(r) ==
    /\ \A q \in DOMAIN pc : pc[q] = "idle"
    /\ Call(r)

Next ==
    \/ Tick
    \/ \E r \in Slots :
          \/ Serve(r)
          \/ GetSession(r)
          \/ SetItem(r)
          \/ DelItem(r)
          \/ Clear(r)
          \/ Pop(r)
          \/ PopItem(r)
          \/ SetDefault(r)
          \/ Update(r)
          \/ Invalidate(r)
          \/ my_start_response(r)
          \/ Finish(r)

Spec == Init /\ [][Next]_vars

\* The same requests against constructions with unsupported settings.
SpecConfig == InitConfig /\ [][Next]_vars

\* Requests served concurrently (one thread each): a request may enter while
\* others are in progress. The requests are those at the application root
\* that carry no Cookie header or the client's stored cookie, and the
\* applications those that store keys and invalidate.
Arrive(r) ==
    /\ Call(r)
    /\ The(environ'[r]).SCRIPT_NAME = ""
    /\ The(environ'[r]).HTTP_COOKIE \in
          IF IsNone(jar) THEN {NoCookie("absent")}
          ELSE {NoCookie("absent"), SessionCookie(The(jar), "")}

InitConc == Start({DefaultArgs})

NextConc ==
    \E r \in Slots :
        \/ Arrive(r)
        \/ GetSession(r)
        \/ SetItem(r)
        \/ Invalidate(r)
        \/ my_start_response(r)
        \/ Finish(r)

SpecConc == InitConc /\ [][NextConc]_vars

\* ---------------------------------------------------------------- properties
Responded(r) == pc[r] = "responded"
Called(r) == Len(got[r]) > 0
Obtained(r) == \E i \in 1..Len(got[r]) : got[r][i] # 0
Unmutated(r) == mutated[r] \in {"no", "failed"}
Hdr(r) == The(environ[r]).HTTP_COOKIE
Presented(r) == environ[r] # None /\ Hdr(r).kind = "session"
Token(r) == The(Hdr(r).token)

\* The Set-Cookie morsels among the response headers of request r.
Emitted(r) == LET sc == SetCookies(headers[r]) IN [i \in 1..Len(sc) |-> sc[i][2]]

\* The session the cell of request r holds.
Held(r) == heap[r][session_holder[r][1]]

\* What a morsel's value opens and decodes to under this instance, whatever its age.
Payload(ck) ==
    LET dec == FernetDecrypt(cfg.secret_key, ck.value, None, now)
    IN IF dec.ok THEN Decode(cfg, dec.val) ELSE dec

\* A token as the client's input describes it: written by this instance's own
\* transform chain, and its age at time t against the instance's TTL.
OwnFormat(tok) ==
    /\ tok.data.fmt = cfg.serializer
    /\ tok.data.z = ~IsNone(cfg.compression)
Stale(tok, t) == ~IsNone(cfg.session_ttl) /\ t > tok.ts + The(cfg.session_ttl)
Genuine(tok) == tok.intact /\ tok.key = cfg.secret_key /\ OwnFormat(tok)

Count(n) == [k \in {"count"} |-> n]

\* C1: a request whose application mutated the session before start_response
\* carries exactly one Set-Cookie, and its payload opens and decodes to the
\* session's contents at the moment of start_response.
C1_OneCookieSealsContents ==
    \A r \in Slots :
        (Responded(r) /\ mutated[r] = "before") =>
            /\ Len(Emitted(r)) = 1
            /\ Payload(Emitted(r)[1]) = Ok(The(atResp[r]).data)

C1_Witness ==
    \E r \in Slots :
        /\ Responded(r) /\ mutated[r] = "before"
        /\ Hdr(r).kind = "absent"
        /\ The(atResp[r]).data = Count(1)
        /\ Len(Emitted(r)) = 1

\* C2 as claimed: a request that obtained the session and mutated nothing
\* carries no Set-Cookie, whatever cookie it presented.
C2_Original ==
    \A r \in Slots :
        (Responded(r) /\ Obtained(r) /\ Unmutated(r)) => Len(Emitted(r)) = 0

\* C2 amended: a request that obtained the session and mutated nothing carries
\* no Set-Cookie when it presented no session cookie or one that opened and
\* decoded; when it presented a cookie failing integrity verification the
\* session is empty and valid but already dirty, and if it was obtained before
\* start_response one Set-Cookie sealing the empty mapping is emitted.
C2_UnmutatedSession ==
    \A r \in Slots :
        (Responded(r) /\ Obtained(r) /\ Unmutated(r)) =>
            /\ ~Presented(r) => Len(Emitted(r)) = 0
            /\ (Presented(r) /\ Genuine(Token(r)) /\ ~Stale(Token(r), loads[r][1]))
                    => Len(Emitted(r)) = 0
            /\ (Presented(r) /\ ~Token(r).intact) =>
                    /\ Held(r).data = EmptyDict /\ Held(r).valid /\ Held(r).dirty
                    /\ atResp[r] # None =>
                          /\ Len(Emitted(r)) = 1
                          /\ Payload(Emitted(r)[1]) = Ok(EmptyDict)

C2_Witness ==
    \E r \in Slots :
        /\ Responded(r) /\ Obtained(r) /\ Unmutated(r)
        /\ Presented(r) /\ ~Token(r).intact
        /\ atResp[r] # None
        /\ Len(Emitted(r)) = 1

\* C3 as claimed: when the presented session cookie fails to open (integrity,
\* expiry) or to decode (decompression, deserialization), the load returns a
\* session that is empty, valid and already dirty, so a response after the
\* load carries a Set-Cookie even if the application mutates nothing.
Broken(tok, t) == ~tok.intact \/ tok.key # cfg.secret_key \/ Stale(tok, t) \/ ~OwnFormat(tok)

C3_BrokenCookieOverwritten ==
    \A r \in Slots :
        (Presented(r) /\ Len(loads[r]) > 0 /\ Broken(Token(r), loads[r][1])) =>
            /\ session_holder[r] # <<>>
            /\ Held(r).dirty
            /\ Unmutated(r) => (Held(r).data = EmptyDict /\ Held(r).valid)
            /\ (Responded(r) /\ atResp[r] # None) => Len(Emitted(r)) = 1

\* C4: when the client presents the value of the latest Set-Cookie it stored,
\* within the TTL, the session loaded equals the contents that cookie sealed.
C4_RoundTrip ==
    \A r \in Slots :
        (/\ Presented(r) /\ Len(loads[r]) > 0 /\ Unmutated(r)
         /\ jar = Some(Token(r))
         /\ ~Stale(Token(r), loads[r][1]))
            => Held(r).data = The(sealed)

C4_Witness ==
    \E r \in Slots :
        /\ Presented(r) /\ Len(loads[r]) > 0 /\ Unmutated(r)
        /\ jar = Some(Token(r))
        /\ sealed = Some(Count(1))
        /\ Held(r).data = Count(1)

\* C5: while the application has not called the accessor, the cookie is not
\* parsed or decrypted, and a response in that case carries no Set-Cookie.
C5_UntouchedSession ==
    \A r \in Slots :
        ~Called(r) =>
            /\ loads[r] = <<>>
            /\ session_holder[r] = <<>>
            /\ Len(Emitted(r)) = 0

C5_Witness ==
    \E r \in Slots :
        /\ Responded(r) /\ ~Called(r)
        /\ Presented(r) /\ ~Token(r).intact

\* C6 as claimed: the load runs at most once per request, every accessor call
\* returns the one object the cell holds (also when that session is empty),
\* and that is the object examined at response emission.
C6_Memoized ==
    \A r \in Slots :
        /\ Len(loads[r]) <= 1
        /\ Len(heap[r]) <= 1
        /\ Obtained(r) =>
              /\ Len(loads[r]) = 1
              /\ \A i \in 1..Len(got[r]) : <<got[r][i]>> = session_holder[r]

\* C7: invalidate leaves the session empty, invalid and dirty, and a response
\* for an invalid session carries one Set-Cookie whose expires lies before the
\* time of emission and whose max-age is 0, whatever expiry is configured; its
\* payload is the empty mapping when nothing was stored after invalidate.
C7_Invalidated ==
    \A r \in Slots :
        /\ \A o \in 1..Len(heap[r]) :
              LET s == invalidate(heap[r][o]).sess
              IN s.data = EmptyDict /\ ~s.valid /\ s.dirty
        /\ (Responded(r) /\ atResp[r] # None /\ ~The(atResp[r]).valid) =>
              /\ Len(Emitted(r)) = 1
              /\ Emitted(r)[1].maxage = Some(0)
              /\ Emitted(r)[1].expires # None
              /\ The(Emitted(r)[1].expires) < Emitted(r)[1].value.ts
              /\ The(atResp[r]).data = EmptyDict => Payload(Emitted(r)[1]) = Ok(EmptyDict)

C7_Witness ==
    \E r \in Slots :
        /\ Responded(r) /\ atResp[r] # None /\ ~The(atResp[r]).valid
        /\ The(atResp[r]).data = EmptyDict
        /\ cfg.cookie_expires = Some(2)
        /\ Presented(r) /\ sealed = Some(EmptyDict)
        /\ Len(Emitted(r)) = 1

\* C8: with a TTL in force, the latest cookie presented later than its sealing
\* time plus the TTL loads as an empty session, whatever expiry the cookie
\* itself was given; presented earlier than that it loads its sealed contents.
C8_Freshness ==
    \A r \in Slots :
        (/\ pc[r] = "app" /\ Presented(r) /\ Len(loads[r]) > 0 /\ Unmutated(r)
         /\ jar = Some(Token(r))
         /\ ~IsNone(cfg.session_ttl))
            => LET T == Token(r).ts
                   ttl == The(cfg.session_ttl)
                   t == loads[r][1]
               IN /\ t > T + ttl => (Held(r).data = EmptyDict /\ Held(r).dirty)
                  /\ t < T + ttl => (Held(r).data = The(sealed) /\ ~Held(r).dirty)

C8_Witness ==
    \E r \in Slots :
        /\ pc[r] = "app" /\ Presented(r) /\ Len(loads[r]) > 0 /\ Unmutated(r)
        /\ jar = Some(Token(r))
        /\ cfg.session_ttl = Some(1) /\ cfg.cookie_expires = Some(2)
        /\ loads[r][1] = Token(r).ts + 2
        /\ sealed = Some(Count(1))
        /\ Held(r).data = EmptyDict

\* C9 as claimed: the TTL in force is the session_ttl given (0 included),
\* otherwise the cookie expiry when set, otherwise a bounded default, so some
\* TTL is always in force.
C9_Claim ==
    /\ ~IsNone(args.session_ttl) => cfg.session_ttl = args.session_ttl
    /\ (IsNone(args.session_ttl) /\ ~IsNone(args.cookie_expires))
            => cfg.session_ttl = args.cookie_expires
    /\ ~IsNone(cfg.session_ttl)

\* C10 as claimed: an emitted cookie's path is the configured path, else the
\* path the incoming cookie carried, else SCRIPT_NAME, else "/".
ClaimedPath(r) ==
    IF ~IsNone(cfg.cookie_path) THEN The(cfg.cookie_path)
    ELSE IF Presented(r) /\ Hdr(r).path # "" THEN Hdr(r).path
    ELSE IF The(environ[r]).SCRIPT_NAME # "" THEN The(environ[r]).SCRIPT_NAME
    ELSE "/"

C10_Claim ==
    \A r \in Slots :
        \A i \in 1..Len(Emitted(r)) : Emitted(r)[i].path = ClaimedPath(r)

\* C11 as claimed: with no cookie path configured and no path carried into the
\* request (no session cookie, or one without a path attribute), an emitted
\* cookie's path is SCRIPT_NAME, or "/" when SCRIPT_NAME is empty.
C11_Claim ==
    \A r \in Slots :
        (IsNone(cfg.cookie_path) /\ (~Presented(r) \/ Hdr(r).path = "")) =>
            \A i \in 1..Len(Emitted(r)) :
                Emitted(r)[i].path = IF The(environ[r]).SCRIPT_NAME # ""
                                     THEN The(environ[r]).SCRIPT_NAME ELSE "/"

\* C12 as claimed: every call of the accessor returns normally, and for a
\* Cookie header that is absent, malformed, without the session cookie, or
\* whose session cookie fails to open or to decode under the configured
\* serializer, the session it returns is empty and valid.
C12_Claim ==
    \A r \in Slots :
        /\ \A i \in 1..Len(got[r]) : got[r][i] # 0
        /\ (/\ Len(loads[r]) > 0 /\ Unmutated(r)
            /\ ~Presented(r) \/ Broken(Token(r), loads[r][1]))
                => /\ session_holder[r] # <<>>
                   /\ Held(r).data = EmptyDict
                   /\ Held(r).valid

\* C13: once a mutating operation has completed on a request's session the
\* session is dirty, no step of the request resets the flag while the session
\* lives, and the read-only operations get and containment leave the session,
\* its flag included, as it was.
C13_DirtySticks ==
    [][\A r \in Slots :
          /\ mutated'[r] \in {"before", "after"} =>
                /\ session_holder'[r] # <<>>
                /\ heap'[r][session_holder'[r][1]].dirty
          /\ \A o \in 1..Len(heap[r]) :
                (o <= Len(heap'[r]) /\ heap[r][o].dirty) => heap'[r][o].dirty
          /\ \A o \in 1..Len(heap'[r]) : \A k \in Keys :
                /\ get(heap'[r][o], k).sess = heap'[r][o]
                /\ contains(heap'[r][o], k).sess = heap'[r][o]]_vars

C13_Witness ==
    \E r \in Slots :
        /\ mutated[r] = "before" /\ pc[r] = "app"
        /\ Presented(r) /\ jar = Some(Token(r))
        /\ sealed = Some(Count(1))
        /\ Held(r).data = Count(1)
        /\ Held(r).dirty

\* C14 as claimed: an unsupported serializer or compression setting is
\* rejected by the constructor, so no request of a constructed instance fails
\* during load or emission because of its configuration.
C14_Claim ==
    /\ args.serializer \notin Serializers => cfg.error # "none"
    /\ \A r \in Slots : pc[r] = "error" => cfg.error # "none"

\* C15: requests in progress at the same time are isolated. Each has its own
\* memo cell and session object: a step of one request changes nothing another
\* request holds, and leaves the instance's configuration and key as
\* constructed; so a request that presented no cookie and mutated nothing
\* holds an empty clean session whatever the other requests do.
Local(r) ==
    <<pc[r], environ[r], session_holder[r], heap[r], headers[r], got[r], loads[r],
      mutated[r], atResp[r]>>

C15_Isolated ==
    /\ [](\A r \in Slots :
            (session_holder[r] # <<>> /\ ~Presented(r) /\ mutated[r] = "no") =>
                Held(r) = [Session(EmptyDict) EXCEPT !.path = cfg.cookie_path])
    /\ [][/\ cfg' = cfg /\ args' = args /\ cfg = Construct(args)
          /\ \A r, q \in Slots :
                (r # q /\ Local(r)' # Local(r)) => Local(q)' = Local(q)]_vars

C15_Witness ==
    \E r, q \in Slots :
        /\ r # q
        /\ pc[r] = "app" /\ pc[q] = "app"
        /\ session_holder[r] # <<>> /\ session_holder[q] # <<>>
        /\ Held(r).data = Count(1) /\ mutated[r] = "before"
        /\ ~Presented(q) /\ mutated[q] = "no"

\* C16: invalidate is idempotent. Calling it on any session, already
\* invalidated ones included, completes normally and leaves the session empty,
\* invalid and dirty; a second call leaves it exactly as the first did, and the
\* cookie emitted for the session is the same after one call as after two.
C16_InvalidateIdempotent ==
    \A r \in Slots :
        \A o \in 1..Len(heap[r]) :
            LET once == invalidate(heap[r][o])
                twice == invalidate(once.sess)
                env == The(environ[r])
            IN /\ once.exc = "none" /\ twice.exc = "none"
               /\ once.sess.data = EmptyDict /\ ~once.sess.valid /\ once.sess.dirty
               /\ twice.sess = once.sess
               /\ _add_cookie(cfg, env, <<1>>, <<twice.sess>>, <<>>, now)
                    = _add_cookie(cfg, env, <<1>>, <<once.sess>>, <<>>, now)

C16_Witness ==
    \E r \in Slots :
        /\ pc[r] = "app" /\ session_holder[r] # <<>>
        /\ Presented(r) /\ jar = Some(Token(r)) /\ sealed = Some(Count(1))
        /\ ~Held(r).valid /\ Held(r).data = EmptyDict /\ Held(r).dirty

\* C17 as claimed: whenever a request that has responded holds a dirty session,
\* the response carries one Set-Cookie sealing the session's contents as they
\* are now, mutations made after start_response included.
C17_Claim ==
    \A r \in Slots :
        (Responded(r) /\ session_holder[r] # <<>> /\ Held(r).dirty) =>
            /\ Len(Emitted(r)) = 1
            /\ Payload(Emitted(r)[1]) = Ok(Held(r).data)

\* C18 as claimed: update called with a mapping completes without raising and
\* leaves the session holding the merged entries and dirty.
C18_Claim ==
    \A r \in Slots :
        \A o \in 1..Len(heap[r]) : \A other \in Dicts :
            LET u == update(heap[r][o], other)
            IN /\ u.exc = "none"
               /\ u.sess.data = DictUpdate(heap[r][o].data, other)
               /\ u.sess.dirty

\* C19: validity is monotone within a request. No operation makes an
\* invalidated session valid again, storing new keys included, so the cookie
\* emitted for a session that is invalid at start_response carries an expiry
\* before the time of emission and max-age 0 also when keys stored after
\* invalidate made the sealed payload non-empty.
C19_ValidMonotone ==
    /\ [][\A r \in Slots : \A o \in 1..Len(heap[r]) :
            (o <= Len(heap'[r]) /\ ~heap[r][o].valid) => ~heap'[r][o].valid]_vars
    /\ [](\A r \in Slots :
            (/\ Responded(r) /\ atResp[r] # None
             /\ ~The(atResp[r]).valid /\ The(atResp[r]).data # EmptyDict) =>
                /\ Len(Emitted(r)) = 1
                /\ \A i \in 1..Len(Emitted(r)) :
                      /\ Emitted(r)[i].maxage = Some(0)
                      /\ Emitted(r)[i].expires # None
                      /\ The(Emitted(r)[i].expires) < Emitted(r)[i].value.ts
                      /\ Payload(Emitted(r)[i]) = Ok(The(atResp[r]).data))

C19_Witness ==
    \E r \in Slots :
        /\ Responded(r) /\ atResp[r] # None
        /\ ~The(atResp[r]).valid /\ The(atResp[r]).data = Count(2)
        /\ Len(Emitted(r)) = 1
        /\ Emitted(r)[1].maxage = Some(0)
        /\ ~Held(r).valid

\* An operation that raises KeyError (del of an absent key, pop of an absent
\* key without default, popitem on an empty session) leaves the session,
\* contents and flags, as it was; each of the three raises in that case.
FailedOpsFrame ==
    \A r \in Slots :
        \A o \in 1..Len(heap[r]) : \A k \in Keys :
            LET s == heap[r][o]
            IN /\ k \notin DOMAIN s.data =>
                    /\ delitem(s, k) = Ret(s, "KeyError")
                    /\ pop(s, k, None) = Ret(s, "KeyError")
               /\ DOMAIN s.data = {} => popitem(s, k) = Ret(s, "KeyError")
               /\ \A res \in {delitem(s, k), pop(s, k, None), popitem(s, k)} :
                    res.exc = "KeyError" => res.sess = s

\* C20 as claimed: operations failing with KeyError leave the session
\* unchanged, so a request whose only session operations failed so carries no
\* Set-Cookie.
C20_Original ==
    /\ FailedOpsFrame
    /\ \A r \in Slots :
          (Responded(r) /\ mutated[r] = "failed") => Len(Emitted(r)) = 0

\* C20 amended: operations failing with KeyError leave the session unchanged,
\* so a request whose only session operations failed so carries what it would
\* carry had they not been called: no Set-Cookie when the session was loaded
\* from no cookie or from one that opened and decoded, and one Set-Cookie
\* sealing the empty mapping when the session, loaded before start_response,
\* came from a cookie that failed to open or decode.
C20_FailedOps ==
    /\ FailedOpsFrame
    /\ \A r \in Slots :
          (Responded(r) /\ mutated[r] = "failed") =>
              /\ Held(r) = [Held(r) EXCEPT !.data = EmptyDict, !.valid = TRUE] =>
                    Held(r).dirty = (Presented(r) /\ Broken(Token(r), loads[r][1]))
              /\ (atResp[r] # None /\ The(atResp[r]).dirty) =>
                    /\ Presented(r) /\ Broken(Token(r), loads[r][1])
                    /\ Len(Emitted(r)) = 1
                    /\ Payload(Emitted(r)[1]) = Ok(EmptyDict)
              /\ (atResp[r] = None \/ ~The(atResp[r]).dirty) => Len(Emitted(r)) = 0
              /\ (~Presented(r) \/ ~Broken(Token(r), loads[r][1])) => Len(Emitted(r)) = 0

C20_Witness ==
    \E r \in Slots :
        /\ Responded(r) /\ mutated[r] = "failed"
        /\ atResp[r] # None
        /\ ~Presented(r)
        /\ Held(r).data = EmptyDict /\ ~Held(r).dirty
        /\ Len(Emitted(r)) = 0

====
